---- MODULE Spec2Model ----
(***************************************************************************)
(* Model of the image generation request pipeline of the Maya-29 kiosk     *)
(* server: prompt validation (shared/schema.ts), the POST /api/generate    *)
(* handler, downloadImage and generateFilename (server/routes.ts) and the  *)
(* in-memory metadata repository MemStorage (server/storage.ts), the GET   *)
(* routes that list, count, serve and download the stored images, and the  *)
(* download the client starts after a generation (client/pages/home.tsx).  *)
(*                                                                         *)
(* Strings are sequences of one-character strings so that the character    *)
(* level operations of the code (toLowerCase, replace, substring) are      *)
(* computed, not assumed.  File contents are modelled by their byte        *)
(* counts.  The clock is the number of milliseconds since midnight (UTC)   *)
(* of a fixed day, because TLC integers are 32 bits wide.                  *)
(***************************************************************************)
EXTENDS Integers, Sequences, FiniteSets, TLC

VARIABLES
  now,        \* the wall clock read by new Date(), in ms since midnight
  pc,         \* per request: position of the POST /api/generate handler
  body,       \* per request: req.body.prompt as received
  calls,      \* per request: the replicate.run calls made (their input)
  output,     \* per request: what replicate.run resolved to
  fetches,    \* per request: the URLs handed to fetch()
  content,    \* per request: the chunks of the fetched response body
  toRead,     \* per request: chunks reader.read() has not returned yet
  filename,   \* per request: the result of generateFilename
  fnTime,     \* per request: the clock value generateFilename read
  stream,     \* per request: the fs.WriteStream of downloadImage
  disk,       \* the filesystem: path -> size in bytes of the file there
  images,     \* MemStorage.images, in insertion order
  nextUuid,   \* number of ids randomUUID() has produced
  resp,       \* per request: the HTTP response sent
  recent,     \* the last answer of GET /api/images/recent
  stub,       \* the environment of the run: names what clients, the
              \* inference backend and the image host may send
  served,     \* the last answer of the GET routes that serve a file or
              \* the image count
  link,       \* per request: the download link the client clicked
  ui          \* the state of the kiosk page: its React state, its form and
              \* its pending timers

vars == <<now, pc, body, calls, output, fetches, content, toRead, filename,
          fnTime, stream, disk, images, nextUuid, resp, recent, stub,
          served, link, ui>>

-----------------------------------------------------------------------------
(* Bounds of the model *)

NumRequests == 2
MaxClock == 1
MaxSaves == 3

(* Program constants *)

MinPromptLen == 1
MaxPromptLen == 500
MaxSegmentLen == 50
DefaultLimit == 12

-----------------------------------------------------------------------------
(* Characters and strings *)

Min(a, b) == IF a < b THEN a ELSE b
Max(a, b) == IF a > b THEN a ELSE b

UpperLetters ==
  <<"A","B","C","D","E","F","G","H","I","J","K","L","M",
    "N","O","P","Q","R","S","T","U","V","W","X","Y","Z">>
LowerLetters ==
  <<"a","b","c","d","e","f","g","h","i","j","k","l","m",
    "n","o","p","q","r","s","t","u","v","w","x","y","z">>
Digits == <<"0","1","2","3","4","5","6","7","8","9">>

Range(s) == {s[i] : i \in 1..Len(s)}

IsPrefix(a, b) == Len(a) <= Len(b) /\ a = SubSeq(b, 1, Len(a))

UpperSet == Range(UpperLetters)
DigitSet == Range(Digits)

\* the class \s of the regular expressions (the ASCII members)
Whitespace == {" ", "\t", "\n", "\r", "\f"}
\* the class [a-z0-9]
AlphaNum == Range(LowerLetters) \cup DigitSet

\* String.prototype.toLowerCase on one character
LowerChar(c) ==
  IF c \in UpperSet
    THEN LowerLetters[CHOOSE i \in 1..26 : UpperLetters[i] = c]
    ELSE c

ToLowerCase(s) == [i \in 1..Len(s) |-> LowerChar(s[i])]

\* s.replace(/[^a-z0-9\s]/g, '')
Kept == AlphaNum \cup Whitespace

StripOther(s) == SelectSeq(s, LAMBDA c : c \in Kept)

\* s.replace(/\s+/g, '-'): every maximal run of whitespace becomes one '-'
HyphenateRuns(s) ==
  LET marked == [i \in 1..Len(s) |->
                   IF s[i] \notin Whitespace THEN s[i]
                   ELSE IF i > 1 /\ s[i - 1] \in Whitespace THEN ""
                   ELSE "-"]
  IN SelectSeq(marked, LAMBDA c : c # "")

\* s.substring(0, n)
Substring0(s, n) == SubSeq(s, 1, Min(Len(s), n))

\* s.replace(/[:.]/g, '-')
ReplaceColonDot(s) ==
  [i \in 1..Len(s) |-> IF s[i] \in {":", "."} THEN "-" ELSE s[i]]

\* decimal digits of n, zero padded to w places
RECURSIVE Pad(_, _)
Pad(n, w) ==
  IF w = 0 THEN <<>> ELSE Pad(n \div 10, w - 1) \o <<Digits[(n % 10) + 1]>>

\* the day the clock counts from
BaseDate == <<"2","0","2","5","-","0","8","-","1","4">>

\* a timestamp of second precision
ToISOStringSeconds(t) ==
  BaseDate \o <<"T">> \o Pad((t \div 3600000) % 24, 2) \o <<":">>
    \o Pad((t \div 60000) % 60, 2) \o <<":">>
    \o Pad((t \div 1000) % 60, 2) \o <<".">>
    \o Pad(0, 3) \o <<"Z">>

\* Date.prototype.toISOString for a time t of that day
ToISOString(t) ==
  BaseDate \o <<"T">> \o Pad((t \div 3600000) % 24, 2) \o <<":">>
    \o Pad((t \div 60000) % 60, 2) \o <<":">>
    \o Pad((t \div 1000) % 60, 2) \o <<".">>
    \o Pad(t % 1000, 3) \o <<"Z">>

\* the sanitizer with the hyphens at its ends trimmed
SanitizePromptTrimmed(prompt) ==
  LET h == HyphenateRuns(StripOther(ToLowerCase(prompt)))
      first == IF h # <<>> /\ Head(h) = "-" THEN 2 ELSE 1
      last == IF h # <<>> /\ h[Len(h)] = "-" THEN Len(h) - 1 ELSE Len(h)
  IN Substring0(SubSeq(h, first, last), MaxSegmentLen)

\* the sanitizer without .substring(0, 50)
SanitizePromptUncut(prompt) == HyphenateRuns(StripOther(ToLowerCase(prompt)))

\* the sanitizedPrompt of generateFilename
SanitizePrompt(prompt) ==
  Substring0(HyphenateRuns(StripOther(ToLowerCase(prompt))), MaxSegmentLen)

PngSuffix == <<".", "p", "n", "g">>

\* generateFilename(prompt) when new Date() is t
GenerateFilename(t, prompt) ==
  ReplaceColonDot(ToISOString(t)) \o <<"_">> \o SanitizePrompt(prompt)
    \o PngSuffix

-----------------------------------------------------------------------------
(* Inputs of the model: request bodies, upstream outputs, fetch responses *)

StringBody(s) == [type |-> "string", val |-> s]
NumberBody == [type |-> "number", val |-> <<>>]
MissingBody == [type |-> "undefined", val |-> <<>>]

\* a body with keys besides prompt, here ones that name the settings of
\* the upstream call
ExtraFields ==
  [model |-> "stability-ai/sdxl", aspect_ratio |-> "1:1", num_outputs |-> 4,
   output_format |-> "jpg", output_quality |-> 10]
ExtraBody(s, extra) == [type |-> "string", val |-> s, extra |-> extra]

PromptEmpty == <<>>
PromptSpace == <<" ">>
PromptACat == <<"A", " ", "C", "a", "t", "!", "!", " ", "@", "#", "%">>
PromptACat2 == <<"a", "-", " ", "\t", "c", "a", "t", " ", "?">>
PromptMax == [i \in 1..MaxPromptLen |-> IF i % 4 = 0 THEN " " ELSE "B"]
PromptTooLong == PromptMax \o <<"b">>
PromptPunct == <<"?", "!">>

Bodies ==
  {StringBody(PromptEmpty), StringBody(PromptSpace), StringBody(PromptACat),
   StringBody(PromptACat2), StringBody(PromptMax), StringBody(PromptTooLong),
   NumberBody, MissingBody}

UrlA == "http://x/img.png"
UrlB == "http://x/other.png"

ArrayOutput(items) == [kind |-> "array", items |-> items]
StringOutput(u) == [kind |-> "string", items |-> <<u>>]
ObjectOutput == [kind |-> "object", items |-> <<>>]
NullOutput == [kind |-> "null", items |-> <<>>]
ThrowOutput == [kind |-> "throw", items |-> <<>>]
NoOutput == [kind |-> "none", items |-> <<>>]

Outputs ==
  {ArrayOutput(<<UrlA>>), ArrayOutput(<<UrlA, UrlB>>), ArrayOutput(<<>>),
   StringOutput(UrlA), ObjectOutput, NullOutput, ThrowOutput}

\* what fetch(url) settles to: a response (ok or not, with or without a
\* body of chunks, each chunk given by its byte count) or a rejection
OkResponse(chunks) == [kind |-> "ok", hasBody |-> TRUE, chunks |-> chunks]
EmptyResponse == [kind |-> "ok", hasBody |-> FALSE, chunks |-> <<>>]
NotOkResponse == [kind |-> "notok", hasBody |-> FALSE, chunks |-> <<>>]
FetchReject == [kind |-> "reject", hasBody |-> FALSE, chunks |-> <<>>]

FetchResults ==
  {OkResponse(<<2, 1>>), EmptyResponse, NotOkResponse, FetchReject}

\* The environments a run is checked in.  Each one varies one side of the
\* handler and keeps the other sides to what lets a request get there:
\* the request bodies, the upstream outputs, two output shapes for one
\* download, a download in chunks, and the downloads that write nothing.
\* Requests are handled concurrently in all of them; the environments
\* whose requests write file contents send at most two requests.  In
\* "fields" the bodies carry keys besides the prompt; in "diskfail" the
\* filesystem may refuse to open the file or to write to
\* it.  The last one sends one request whose file the GET routes then
\* serve.
Stubs ==
  {"bodies", "outputs", "shapes", "chunks", "failures", "fields", "diskfail",
   "serve"}

Env(name) ==
  CASE name = "bodies" ->
         [requests |-> NumRequests,
          bodies |-> Bodies,
          outputs |-> {ArrayOutput(<<UrlA>>)},
          fetches |-> {NotOkResponse},
          reads |-> {TRUE},
          faults |-> {}]
    [] name = "outputs" ->
         [requests |-> NumRequests,
          bodies |-> {StringBody(PromptACat)},
          outputs |-> Outputs,
          fetches |-> {FetchReject},
          reads |-> {TRUE},
          faults |-> {}]
    [] name = "shapes" ->
         [requests |-> Min(NumRequests, 2),
          bodies |-> {StringBody(PromptACat)},
          outputs |-> {ArrayOutput(<<UrlA>>), StringOutput(UrlA)},
          fetches |-> {OkResponse(<<3>>)},
          reads |-> {TRUE},
          faults |-> {}]
    [] name = "chunks" ->
         [requests |-> Min(NumRequests, 2),
          bodies |-> {StringBody(PromptACat)},
          outputs |-> {ArrayOutput(<<UrlA>>)},
          fetches |-> {OkResponse(<<2, 1>>)},
          reads |-> BOOLEAN,
          faults |-> {}]
    [] name = "failures" ->
         [requests |-> NumRequests,
          bodies |-> {StringBody(PromptACat)},
          outputs |-> {ArrayOutput(<<UrlA>>)},
          fetches |-> {EmptyResponse, NotOkResponse, FetchReject},
          reads |-> {TRUE},
          faults |-> {}]
    [] name = "fields" ->
         [requests |-> Min(NumRequests, 2),
          bodies |-> {StringBody(PromptACat),
                      ExtraBody(PromptACat, ExtraFields)},
          outputs |-> {ArrayOutput(<<UrlA>>)},
          fetches |-> {EmptyResponse},
          reads |-> {TRUE},
          faults |-> {}]
    [] name = "diskfail" ->
         [requests |-> Min(NumRequests, 2),
          bodies |-> {StringBody(PromptACat)},
          outputs |-> {ArrayOutput(<<UrlA>>)},
          fetches |-> {OkResponse(<<3>>)},
          reads |-> {TRUE},
          faults |-> {"EACCES", "ENOSPC"}]
    [] name = "serve" ->
         [requests |-> Min(NumRequests, 1),
          bodies |-> {StringBody(PromptACat), StringBody(PromptPunct)},
          outputs |-> {ArrayOutput(<<UrlA>>)},
          fetches |-> {OkResponse(<<3>>)},
          reads |-> {TRUE},
          faults |-> {}]

RECURSIVE Sum(_)
Sum(s) == IF s = <<>> THEN 0 ELSE Head(s) + Sum(Tail(s))

-----------------------------------------------------------------------------
(* shared/schema.ts *)

ZodIssue(text) == [ok |-> FALSE, prompt |-> <<>>, issue |-> text]

\* String.prototype.trim
RECURSIVE TrimLeft(_)
TrimLeft(s) ==
  IF s # <<>> /\ Head(s) \in Whitespace THEN TrimLeft(Tail(s)) ELSE s

RECURSIVE TrimRight(_)
TrimRight(s) ==
  IF s # <<>> /\ s[Len(s)] \in Whitespace
    THEN TrimRight(SubSeq(s, 1, Len(s) - 1))
    ELSE s

\* the schema without .min(1, ...)
ParseRequestNoMin(b) ==
  IF b.type = "undefined" THEN ZodIssue("Required")
  ELSE IF b.type # "string" THEN ZodIssue("Expected string, received number")
  ELSE IF Len(b.val) > MaxPromptLen THEN ZodIssue("Prompt too long")
  ELSE [ok |-> TRUE, prompt |-> b.val, issue |-> ""]

\* the schema with the bound of .max off by one
ParseRequestMaxOffByOne(b) ==
  IF b.type = "undefined" THEN ZodIssue("Required")
  ELSE IF b.type # "string" THEN ZodIssue("Expected string, received number")
  ELSE IF Len(b.val) < MinPromptLen THEN ZodIssue("Prompt is required")
  ELSE IF Len(b.val) > MaxPromptLen + 1 THEN ZodIssue("Prompt too long")
  ELSE [ok |-> TRUE, prompt |-> b.val, issue |-> ""]

\* the schema as z.string().trim().min(1, ...).max(500, ...)
ParseRequestTrimmed(b) ==
  IF b.type = "undefined" THEN ZodIssue("Required")
  ELSE IF b.type # "string" THEN ZodIssue("Expected string, received number")
  ELSE LET t == TrimRight(TrimLeft(b.val)) IN
    IF Len(t) < MinPromptLen THEN ZodIssue("Prompt is required")
    ELSE IF Len(t) > MaxPromptLen THEN ZodIssue("Prompt too long")
    ELSE [ok |-> TRUE, prompt |-> t, issue |-> ""]

\* generateImageRequestSchema.parse(req.body)
ParseRequest(b) ==
  IF b.type = "undefined" THEN ZodIssue("Required")
  ELSE IF b.type # "string" THEN ZodIssue("Expected string, received number")
  ELSE IF Len(b.val) < MinPromptLen THEN ZodIssue("Prompt is required")
  ELSE IF Len(b.val) > MaxPromptLen THEN ZodIssue("Prompt too long")
  ELSE [ok |-> TRUE, prompt |-> b.val, issue |-> ""]

\* ZodError.message is the JSON text of the issues
ZodMessage(text) ==
  <<"[{\"message\":\"", text, "\",\"path\":[\"prompt\"]}]">>

-----------------------------------------------------------------------------
(* server/storage.ts *)

DefaultModel == "bytedance/sdxl-lightning-4step"

\* a store that holds the record saved last and nothing else
MapSetKeepLast(m, rec) == <<rec>>

\* a map keyed by the file path of the record instead of its id
MapSetByPath(m, rec) ==
  IF \E i \in 1..Len(m) : m[i].localPath = rec.localPath
    THEN [i \in 1..Len(m) |->
            IF m[i].localPath = rec.localPath THEN rec ELSE m[i]]
    ELSE Append(m, rec)

\* Map.prototype.set on a map kept as the sequence of its values
MapSet(m, rec) ==
  IF \E i \in 1..Len(m) : m[i].id = rec.id
    THEN [i \in 1..Len(m) |-> IF m[i].id = rec.id THEN rec ELSE m[i]]
    ELSE Append(m, rec)

\* the record built with one id for every save
NewImageFixedId(ins, id, t) ==
  [id |-> 1,
   prompt |-> ins.prompt,
   imageUrl |-> ins.imageUrl,
   localPath |-> ins.localPath,
   fileSize |-> ins.fileSize,
   resolution |-> ins.resolution,
   modelUsed |-> IF ins.modelUsed = "" THEN DefaultModel ELSE ins.modelUsed,
   generatedAt |-> t]

\* the record MemStorage.saveGeneratedImage builds
NewImage(ins, id, t) ==
  [id |-> id,
   prompt |-> ins.prompt,
   imageUrl |-> ins.imageUrl,
   localPath |-> ins.localPath,
   fileSize |-> ins.fileSize,
   resolution |-> ins.resolution,
   modelUsed |-> IF ins.modelUsed = "" THEN DefaultModel ELSE ins.modelUsed,
   generatedAt |-> t]

\* Array.prototype.sort with (a, b) => b.generatedAt - a.generatedAt:
\* a stable sort, so records of equal time keep their insertion order
RECURSIVE InsertDesc(_, _)
InsertDesc(sorted, rec) ==
  IF sorted = <<>> THEN <<rec>>
  ELSE IF Head(sorted).generatedAt < rec.generatedAt
    THEN <<rec>> \o sorted
    ELSE <<Head(sorted)>> \o InsertDesc(Tail(sorted), rec)

RECURSIVE SortDesc(_)
SortDesc(s) ==
  IF s = <<>> THEN <<>>
  ELSE InsertDesc(SortDesc(SubSeq(s, 1, Len(s) - 1)), s[Len(s)])

\* Array.prototype.slice(0, limit)
Slice0(s, limit) ==
  IF limit >= 0 THEN SubSeq(s, 1, Min(Len(s), limit))
  ELSE SubSeq(s, 1, Max(0, Len(s) + limit))

\* MemStorage.getRecentImages(limit)
GetRecentImages(m, limit) == Slice0(SortDesc(m), limit)

\* MemStorage.getImageCount()
GetImageCount(m) == Len(m)

\* MemStorage.getImageById(id): the record in a one-element sequence, or
\* the empty sequence for undefined
GetImageById(m, id) ==
  LET hits == SelectSeq(m, LAMBDA rec : rec.id = id) IN
    IF hits = <<>> THEN <<>> ELSE <<hits[1]>>

-----------------------------------------------------------------------------
(* server/routes.ts: constants and helpers of the generate handler *)

Requests == 1..NumRequests

ImagesDir == "generated_images"
BasePath == ""
Resolution == "3:4"
ModelUsed == "flux-schnell-mm29-style"
ModelId == "black-forest-labs/flux-schnell"

PromptPrefix == <<"M", "M", "2", "9", " ">>
PromptSuffix == <<", Maya style, futuristic streetwear, high tech fashion, ",
                  "minimalist design, professional photography">>

\* the input object handed to replicate.run
ReplicateInput(prompt) ==
  [model |-> ModelId,
   prompt |-> PromptPrefix \o prompt \o PromptSuffix,
   aspect_ratio |-> "3:4",
   num_outputs |-> 1,
   output_format |-> "png",
   output_quality |-> 90]

\* the decision without the check of output.length
NormalizeOutputAnyArray(out) ==
  IF out.kind = "array"
    THEN IF Len(out.items) > 0 THEN <<out.items[1]>> ELSE <<"undefined">>
  ELSE IF out.kind = "string" THEN <<out.items[1]>>
  ELSE <<>>

\* the decision of lines 92-99: the URL to download, or none
NormalizeOutput(out) ==
  IF out.kind = "array" /\ Len(out.items) > 0 THEN <<out.items[1]>>
  ELSE IF out.kind = "string" THEN <<out.items[1]>>
  ELSE <<>>

\* path.join(IMAGES_DIR, filename)
FilePath(name) == [dir |-> ImagesDir, name |-> name]

\* `${basePath}/api/images/${filename}`
LocalUrl(name) == [base |-> BasePath, route |-> "/api/images/", name |-> name]

NoStream == [st |-> "none", queue |-> <<>>, pos |-> 0, ended |-> FALSE]

\* fs.createWriteStream(filePath): the open is issued, not yet done
CreateWriteStream == [NoStream EXCEPT !.st = "opening"]

\* res.status(500).json({success: false, message})
\* the catch block without .status(500)
ErrorResponseNoStatus(msg) ==
  [status |-> 200, success |-> FALSE, image |-> <<>>, message |-> msg]

ErrorResponse(msg) ==
  [status |-> 500, success |-> FALSE, image |-> <<>>, message |-> msg]

\* res.json({success: true, image, message})
SuccessResponse(img) ==
  [status |-> 200, success |-> TRUE, image |-> <<img>>,
   message |-> <<"Image generated and saved successfully">>]

NoQuery == [present |-> FALSE, text |-> <<>>]
Query(text) == [present |-> TRUE, text |-> text]

\* process.cwd(), the directory IMAGES_DIR lies in, and the file of the
\* project that npm reads there
Cwd == "."
PackageJson ==
  <<"p", "a", "c", "k", "a", "g", "e", ".", "j", "s", "o", "n">>
ProjectFiles == [p \in {[dir |-> Cwd, name |-> PackageJson]} |-> 1]

ParentSegment == <<".", ".", "/">>

\* path.join(dir, name) for a directory below process.cwd(): the result
\* is normalized, so a leading "../" of name leaves dir for its parent
PathJoin(dir, name) ==
  IF IsPrefix(ParentSegment, name) /\ Len(name) > Len(ParentSegment)
    THEN [dir |-> Cwd,
          name |-> SubSeq(name, Len(ParentSegment) + 1, Len(name))]
    ELSE [dir |-> dir, name |-> name]

\* the text of the id randomUUID() returned
UuidPrefix == <<"u", "u", "i", "d", "-">>
IdText(id) == UuidPrefix \o Pad(id, 4)

\* the pattern \d{4}-\d{2}-\d{2}T\d{2}-\d{2}-\d{2}-\d{3}Z of a timestamp
\* made filesystem-safe
TimestampPattern ==
  <<"d", "d", "d", "d", "-", "d", "d", "-", "d", "d", "T", "d", "d", "-",
    "d", "d", "-", "d", "d", "-", "d", "d", "d", "Z">>

MatchesTimestamp(ts) ==
  /\ Len(ts) = Len(TimestampPattern)
  /\ \A i \in 1..Len(ts) :
       IF TimestampPattern[i] = "d" THEN ts[i] \in DigitSet
       ELSE ts[i] = TimestampPattern[i]

\* the pattern with (.*) for the prompt part
PromptMatchAnyLength(fn) ==
  LET n == Len(TimestampPattern) IN
    IF /\ Len(fn) >= n + 1 + Len(PngSuffix)
       /\ MatchesTimestamp(SubSeq(fn, 1, n))
       /\ fn[n + 1] = "_"
       /\ SubSeq(fn, Len(fn) - Len(PngSuffix) + 1, Len(fn)) = PngSuffix
      THEN <<SubSeq(fn, n + 2, Len(fn) - Len(PngSuffix))>>
      ELSE <<>>

\* filename.match(/^\d{4}-\d{2}-\d{2}T\d{2}-\d{2}-\d{2}-\d{3}Z_(.+)\.png$/):
\* the group (.+) in a one-element sequence, or the empty sequence for
\* null.  The group needs at least one character
PromptMatch(fn) ==
  LET n == Len(TimestampPattern) IN
    IF /\ Len(fn) > n + 1 + Len(PngSuffix)
       /\ MatchesTimestamp(SubSeq(fn, 1, n))
       /\ fn[n + 1] = "_"
       /\ SubSeq(fn, Len(fn) - Len(PngSuffix) + 1, Len(fn)) = PngSuffix
      THEN <<SubSeq(fn, n + 2, Len(fn) - Len(PngSuffix))>>
      ELSE <<>>

MM29Prefix == <<"M", "M", "2", "9", "-">>
GeneratedImage ==
  <<"g", "e", "n", "e", "r", "a", "t", "e", "d", "-", "i", "m", "a", "g",
    "e">>

\* `MM29-${promptPart}.png`
DownloadFilename(fn) ==
  LET promptMatch == PromptMatch(fn)
      promptPart == IF promptMatch # <<>> THEN promptMatch[1]
                    ELSE GeneratedImage
  IN MM29Prefix \o promptPart \o PngSuffix

TrueText == <<"t", "r", "u", "e">>

\* the answer of a GET route: status, the headers the handler sets, the
\* file handed to res.sendFile and the number of bytes it holds then
NoServed ==
  [route |-> "", ident |-> <<>>, query |-> NoQuery, status |-> 0,
   contentType |-> "", disposition |-> "", attachment |-> <<>>,
   cacheControl |-> "", transferEncoding |-> "", file |-> <<>>,
   bytes |-> 0, count |-> 0, message |-> ""]

NotFound(route, ident, q) ==
  [NoServed EXCEPT !.route = route, !.ident = ident, !.query = q,
                   !.status = 404, !.message = "Image not found"]

\* the kiosk page as it mounts: useState(null), useState(false) twice,
\* the form with its default prompt "", no timer pending, no toast, the
\* queries fresh and no mutation settled
NoUi ==
  [currentImage |-> <<>>, showSaveSuccess |-> FALSE,
   showImageResult |-> FALSE, form |-> <<>>, timers |-> <<>>,
   toast |-> "", stale |-> FALSE, settled |-> {}]

\* String.prototype.replace(/[^a-zA-Z0-9]/g, '_')
ReplaceOther(s) ==
  [i \in 1..Len(s) |->
     IF s[i] \in AlphaNum \cup UpperSet THEN s[i] ELSE "_"]

\* the anchor downloadImageToComputer(imageId, prompt) builds
DownloadLink(imageId, prompt) ==
  [href |-> [route |-> "/api/images/", name |-> IdText(imageId)],
   download |-> GeneratedImage \o <<"-">>
                  \o ReplaceOther(Substring0(prompt, 30)) \o PngSuffix]

NoRecent ==
  [asked |-> FALSE, query |-> NoQuery, limit |-> 0, size |-> 0,
   items |-> <<>>]

-----------------------------------------------------------------------------
(* Initial state: no request received, an empty images directory next to  *)
(* the files of the project and an empty MemStorage                       *)

Init ==
  /\ now = 0
  /\ pc = [r \in Requests |-> "idle"]
  /\ body = [r \in Requests |-> MissingBody]
  /\ calls = [r \in Requests |-> <<>>]
  /\ output = [r \in Requests |-> NoOutput]
  /\ fetches = [r \in Requests |-> <<>>]
  /\ content = [r \in Requests |-> <<>>]
  /\ toRead = [r \in Requests |-> <<>>]
  /\ filename = [r \in Requests |-> <<>>]
  /\ fnTime = [r \in Requests |-> 0]
  /\ stream = [r \in Requests |-> NoStream]
  /\ disk = ProjectFiles
  /\ images = <<>>
  /\ nextUuid = 0
  /\ resp = [r \in Requests |-> <<>>]
  /\ recent = NoRecent
  /\ stub \in Stubs
  /\ served = NoServed
  /\ link = [r \in Requests |-> <<>>]
  /\ ui = NoUi

\* the clock advances by one millisecond
Tick ==
  /\ now < MaxClock
  /\ now' = now + 1
  /\ UNCHANGED <<pc, body, calls, output, fetches, content, toRead, filename,
                 fnTime, stream, disk, images, nextUuid, resp, recent, stub,
                 served, link, ui>>

\* the process runs: no write stream has emitted 'error'.  The stream of
\* downloadImage has no 'error' listener (line 33), so the event is thrown
\* as an uncaught exception, which ends the process
Alive == \A r \in Requests : stream[r].st # "error"

\* the handler sends its error response (the catch block, lines 129-135)
Fail(r, msg) ==
  /\ pc' = [pc EXCEPT ![r] = "responded"]
  /\ resp' = [resp EXCEPT ![r] = <<ErrorResponse(msg)>>]

\* the handler with the keys of the body spread over the upstream input
PostGenerateSpread(r, b) ==
  /\ Alive
  /\ pc[r] = "idle"
  /\ r <= Env(stub).requests
  /\ \A q \in Requests : q < r => pc[q] # "idle"
  /\ body' = [body EXCEPT ![r] = b]
  /\ LET parsed == ParseRequest(b)
         input == ReplicateInput(parsed.prompt)
         extra == IF "extra" \in DOMAIN b THEN b.extra ELSE <<>>
         spread == [k \in DOMAIN input |->
                      IF k \in DOMAIN extra THEN extra[k] ELSE input[k]]
     IN
       IF parsed.ok
         THEN /\ calls' = [calls EXCEPT ![r] = Append(@, spread)]
              /\ pc' = [pc EXCEPT ![r] = "upstream"]
              /\ UNCHANGED resp
         ELSE /\ Fail(r, ZodMessage(parsed.issue))
              /\ UNCHANGED calls
  /\ UNCHANGED <<now, output, fetches, content, toRead, filename, fnTime,
                 stream, disk, images, nextUuid, recent, stub,
                 served, link, ui>>

\* POST /api/generate arrives: lines 70-86, up to the await of replicate.run
PostGenerate(r, b) ==
  /\ Alive
  /\ pc[r] = "idle"
  /\ r <= Env(stub).requests
  /\ \A q \in Requests : q < r => pc[q] # "idle"
  /\ body' = [body EXCEPT ![r] = b]
  /\ LET parsed == ParseRequest(b) IN
       IF parsed.ok
         THEN /\ calls' = [calls EXCEPT
                             ![r] = Append(@, ReplicateInput(parsed.prompt))]
              /\ pc' = [pc EXCEPT ![r] = "upstream"]
              /\ UNCHANGED resp
         ELSE /\ Fail(r, ZodMessage(parsed.issue))
              /\ UNCHANGED calls
  /\ UNCHANGED <<now, output, fetches, content, toRead, filename, fnTime,
                 stream, disk, images, nextUuid, recent, stub,
                 served, link, ui>>

\* replicate.run settles: lines 88-103, up to the await of fetch
UpstreamReturn(r, out) ==
  /\ pc[r] = "upstream"
  /\ output' = [output EXCEPT ![r] = out]
  /\ LET url == NormalizeOutput(out) IN
       IF out.kind = "throw"
         THEN /\ Fail(r, <<"Prediction failed">>)
              /\ UNCHANGED <<fetches, filename, fnTime>>
       ELSE IF url = <<>>
         THEN /\ Fail(r, <<"No valid image URL in API response">>)
              /\ UNCHANGED <<fetches, filename, fnTime>>
         ELSE /\ filename' = [filename EXCEPT
                                ![r] = GenerateFilename(now, body[r].val)]
              /\ fnTime' = [fnTime EXCEPT ![r] = now]
              /\ fetches' = [fetches EXCEPT ![r] = Append(@, url[1])]
              /\ pc' = [pc EXCEPT ![r] = "fetch"]
              /\ UNCHANGED resp
  /\ UNCHANGED <<now, body, calls, content, toRead, stream, disk, images,
                 nextUuid, recent, stub,
                 served, link, ui>>

\* downloadImage with the write stream created before response.ok is read
FetchReturnWriteFirst(r, res) ==
  /\ pc[r] = "fetch"
  /\ IF res.kind = "reject"
       THEN /\ Fail(r, <<"fetch failed">>)
            /\ UNCHANGED <<content, toRead, stream>>
     ELSE IF res.kind = "notok"
       THEN /\ Fail(r, <<"Failed to download image: ", "Not Found">>)
            /\ stream' = [stream EXCEPT ![r] = CreateWriteStream]
            /\ UNCHANGED <<content, toRead>>
       ELSE /\ content' = [content EXCEPT ![r] = res.chunks]
            /\ toRead' = [toRead EXCEPT ![r] = res.chunks]
            /\ stream' = [stream EXCEPT ![r] = CreateWriteStream]
            /\ pc' = [pc EXCEPT ![r] = IF res.hasBody THEN "read" ELSE "stat"]
            /\ UNCHANGED resp
  /\ UNCHANGED <<now, body, calls, output, fetches, filename, fnTime, disk,
                 images, nextUuid, recent, stub, served, link, ui>>

\* fetch settles: lines 27-41, up to the first await of reader.read(), or
\* for a response without body up to the await of fs.stat
FetchReturn(r, res) ==
  /\ pc[r] = "fetch"
  /\ IF res.kind = "reject"
       THEN /\ Fail(r, <<"fetch failed">>)
            /\ UNCHANGED <<content, toRead, stream>>
     ELSE IF res.kind = "notok"
       THEN /\ Fail(r, <<"Failed to download image: ", "Not Found">>)
            /\ UNCHANGED <<content, toRead, stream>>
       ELSE /\ content' = [content EXCEPT ![r] = res.chunks]
            /\ toRead' = [toRead EXCEPT ![r] = res.chunks]
            /\ stream' = [stream EXCEPT ![r] = CreateWriteStream]
            /\ pc' = [pc EXCEPT ![r] = IF res.hasBody THEN "read" ELSE "stat"]
            /\ UNCHANGED resp
  /\ UNCHANGED <<now, body, calls, output, fetches, filename, fnTime, disk,
                 images, nextUuid, recent, stub,
                 served, link, ui>>

\* reader.read() settles: lines 40-50.  A chunk is handed to writer.write,
\* which queues it; at the end of the body writer.end() is called and
\* downloadImage returns without waiting for the stream to finish
ReadReturn(r, ok) ==
  /\ pc[r] = "read"
  /\ IF ~ok
       THEN /\ Fail(r, <<"terminated">>)
            /\ stream' = [stream EXCEPT ![r].ended = TRUE]
            /\ UNCHANGED toRead
     ELSE IF toRead[r] # <<>>
       THEN /\ stream' = [stream EXCEPT
                            ![r].queue = Append(@, Head(toRead[r]))]
            /\ toRead' = [toRead EXCEPT ![r] = Tail(@)]
            /\ UNCHANGED <<pc, resp>>
       ELSE /\ stream' = [stream EXCEPT ![r].ended = TRUE]
            /\ pc' = [pc EXCEPT ![r] = "stat"]
            /\ UNCHANGED <<toRead, resp>>
  /\ UNCHANGED <<now, body, calls, output, fetches, content, filename,
                 fnTime, disk, images, nextUuid, recent, stub,
                 served, link, ui>>

\* the write stream's open (flags 'w') completes: the file is created, or
\* truncated when it exists
StreamOpen(r) ==
  /\ stream[r].st = "opening"
  /\ stream' = [stream EXCEPT ![r].st = "open"]
  /\ LET path == FilePath(filename[r]) IN
       disk' = [p \in DOMAIN disk \cup {path} |->
                  IF p = path THEN 0 ELSE disk[p]]
  /\ UNCHANGED <<now, pc, body, calls, output, fetches, content, toRead,
                 filename, fnTime, images, nextUuid, resp, recent, stub,
                 served, link, ui>>

\* the write stream writes its next queued chunk at its own position
StreamFlush(r) ==
  /\ stream[r].st = "open"
  /\ stream[r].queue # <<>>
  /\ LET path == FilePath(filename[r])
         end == stream[r].pos + Head(stream[r].queue) IN
       /\ disk' = [disk EXCEPT ![path] = Max(@, end)]
       /\ stream' = [stream EXCEPT ![r].queue = Tail(@), ![r].pos = end]
  /\ UNCHANGED <<now, pc, body, calls, output, fetches, content, toRead,
                 filename, fnTime, images, nextUuid, resp, recent, stub,
                 served, link, ui>>

\* the write stream fails: the open is refused (EACCES, or ENOENT for a
\* missing directory) or a write is (ENOSPC).  The stream emits 'error',
\* nothing listens, and the process ends: the requests in flight get no
\* response and no stream writes any more
StreamError(r, fault) ==
  /\ \/ fault = "EACCES" /\ stream[r].st = "opening"
     \/ fault = "ENOSPC" /\ stream[r].st = "open" /\ stream[r].queue # <<>>
  /\ stream' = [q \in Requests |->
                  IF q = r THEN [stream[q] EXCEPT !.st = "error"]
                  ELSE IF stream[q].st \in {"opening", "open"}
                    THEN [stream[q] EXCEPT !.st = "closed"]
                    ELSE stream[q]]
  /\ pc' = [q \in Requests |->
              IF pc[q] \in {"idle", "responded"} THEN pc[q] ELSE "crashed"]
  /\ UNCHANGED <<now, body, calls, output, fetches, content, toRead,
                 filename, fnTime, disk, images, nextUuid, resp, recent,
                 stub, served, link, ui>>

\* fs.stat settles: lines 106-127, the record is saved and the response sent
StatReturn(r) ==
  /\ pc[r] = "stat"
  /\ LET path == FilePath(filename[r]) IN
       IF path \notin DOMAIN disk
         THEN /\ Fail(r, <<"ENOENT: no such file or directory, stat">>)
              /\ UNCHANGED <<images, nextUuid>>
         ELSE LET ins == [prompt |-> body[r].val,
                          imageUrl |-> LocalUrl(filename[r]),
                          localPath |-> path,
                          fileSize |-> disk[path],
                          resolution |-> Resolution,
                          modelUsed |-> ModelUsed]
                  img == NewImage(ins, nextUuid + 1, now) IN
                /\ nextUuid' = nextUuid + 1
                /\ images' = MapSet(images, img)
                /\ pc' = [pc EXCEPT ![r] = "responded"]
                /\ resp' = [resp EXCEPT ![r] = <<SuccessResponse(img)>>]
  /\ UNCHANGED <<now, body, calls, output, fetches, content, toRead,
                 filename, fnTime, stream, disk, recent, stub,
                 served, link, ui>>

\* parseInt(text) for a decimal text: leading whitespace, an optional sign
\* and the longest run of digits; NaN when there is no digit
RECURSIVE DigitRun(_, _)
DigitRun(s, acc) ==
  IF s # <<>> /\ Head(s) \in DigitSet
    THEN DigitRun(Tail(s),
                  acc * 10 + (CHOOSE d \in 0..9 : Digits[d + 1] = Head(s)))
    ELSE acc

ParseInt(q) ==
  LET t == TrimLeft(q.text)
      signed == t # <<>> /\ Head(t) \in {"+", "-"}
      digits == IF signed THEN Tail(t) ELSE t
  IN IF ~q.present \/ digits = <<>> \/ Head(digits) \notin DigitSet
       THEN [nan |-> TRUE, val |-> 0]
       ELSE [nan |-> FALSE,
             val |-> IF signed /\ Head(t) = "-"
                       THEN 0 - DigitRun(digits, 0)
                       ELSE DigitRun(digits, 0)]

\* parseInt(req.query.limit as string) || 12
QueryLimit(q) ==
  LET n == ParseInt(q) IN
    IF n.nan \/ n.val = 0 THEN DefaultLimit ELSE n.val

Queries ==
  {NoQuery, Query(<<"0">>), Query(<<"1">>), Query(<<"2">>),
   Query(<<"-", "1">>), Query(<<"a", "b", "c">>)}

\* GET /api/images/recent: lines 139-150
GetRecent(q) ==
  /\ recent' = [asked |-> TRUE,
                query |-> q,
                limit |-> QueryLimit(q),
                size |-> GetImageCount(images),
                items |-> GetRecentImages(images, QueryLimit(q))]
  /\ UNCHANGED <<now, pc, body, calls, output, fetches, content, toRead,
                 filename, fnTime, stream, disk, images, nextUuid, resp, stub,
                 served, link, ui>>

\* what the repository is asked to save
InsertImages ==
  {[prompt |-> p,
    imageUrl |-> LocalUrl(GenerateFilename(0, p)),
    localPath |-> FilePath(GenerateFilename(0, p)),
    fileSize |-> 3,
    resolution |-> Resolution,
    modelUsed |-> m] : p \in {PromptACat, PromptSpace}, m \in {ModelUsed, ""}}

\* storage.saveGeneratedImage(ins), called on the repository directly
SaveGeneratedImage(ins) ==
  /\ Len(images) < MaxSaves
  /\ nextUuid' = nextUuid + 1
  /\ images' = MapSet(images, NewImage(ins, nextUuid + 1, now))
  /\ UNCHANGED <<now, pc, body, calls, output, fetches, content, toRead,
                 filename, fnTime, stream, disk, resp, recent, stub,
                 served, link, ui>>

\* GET /api/images/count: lines 153-161
GetCount ==
  /\ served' = [NoServed EXCEPT !.route = "count", !.status = 200,
                                !.count = GetImageCount(images)]
  /\ UNCHANGED <<now, pc, body, calls, output, fetches, content, toRead,
                 filename, fnTime, stream, disk, images, nextUuid, resp,
                 recent, stub, link, ui>>

\* GET /api/images/:filename: lines 192-220.  Express hands the handler
\* the decoded path parameter, so ident may hold a '/'
GetImage(ident, q) ==
  /\ LET imagePath == PathJoin(ImagesDir, ident)
         isDownload == q.present /\ q.text = TrueText IN
       served' =
         IF imagePath \notin DOMAIN disk THEN NotFound("images", ident, q)
         ELSE IF isDownload
           THEN [NoServed EXCEPT
                   !.route = "images", !.ident = ident, !.query = q,
                   !.status = 200,
                   !.contentType = "application/octet-stream",
                   !.disposition = "attachment",
                   !.attachment = ident,
                   !.cacheControl = "no-cache",
                   !.file = <<imagePath>>,
                   !.bytes = disk[imagePath]]
           ELSE [NoServed EXCEPT
                   !.route = "images", !.ident = ident, !.query = q,
                   !.status = 200,
                   !.contentType = "image/png",
                   !.cacheControl = "public, max-age=31536000",
                   !.file = <<imagePath>>,
                   !.bytes = disk[imagePath]]
  /\ UNCHANGED <<now, pc, body, calls, output, fetches, content, toRead,
                 filename, fnTime, stream, disk, images, nextUuid, resp,
                 recent, stub, link, ui>>

\* GET /api/download/:filename: lines 164-189
GetDownload(ident) ==
  /\ LET imagePath == PathJoin(ImagesDir, ident) IN
       served' =
         IF imagePath \notin DOMAIN disk
           THEN NotFound("download", ident, NoQuery)
           ELSE [NoServed EXCEPT
                   !.route = "download", !.ident = ident,
                   !.status = 200,
                   !.contentType = "application/octet-stream",
                   !.disposition = "attachment",
                   !.attachment = DownloadFilename(ident),
                   !.cacheControl = "no-cache",
                   !.transferEncoding = "binary",
                   !.file = <<imagePath>>,
                   !.bytes = disk[imagePath]]
  /\ UNCHANGED <<now, pc, body, calls, output, fetches, content, toRead,
                 filename, fnTime, stream, disk, images, nextUuid, resp,
                 recent, stub, link, ui>>

-----------------------------------------------------------------------------
(* client/src/pages/home.tsx *)

\* downloadImageToComputer as onSuccess calls it with the record of the
\* response of request r: the anchor is built and clicked
DownloadImageToComputer(r) ==
  LET image == resp[r][1].image[1] IN
    link' = [link EXCEPT ![r] = <<DownloadLink(image.id, image.prompt)>>]

\* promptValue.trim().split(/\s+/).filter(word => word.length > 0).length
WordCount(s) ==
  Cardinality({i \in 1..Len(s) :
                 /\ s[i] \notin Whitespace
                 /\ i = 1 \/ s[i - 1] \in Whitespace})

\* generateMutation.isPending: a request was sent and its callbacks
\* have not run yet
IsGenerating ==
  \E r \in Requests : pc[r] # "idle" /\ r \notin ui.settled

\* what the user may type into the prompt field
TypedPrompts == {b.val : b \in Env(stub).bodies} \cup {PromptSpace}

\* the user edits the prompt field (maxLength 400)
TypePrompt(p) ==
  /\ Len(p) <= 400
  /\ ui.form # p
  /\ ui' = [ui EXCEPT !.form = p]
  /\ UNCHANGED <<now, pc, body, calls, output, fetches, content, toRead,
                 filename, fnTime, stream, disk, images, nextUuid, resp,
                 recent, stub, served, link>>

\* the submit button, enabled as line 246 says, then the zodResolver and
\* onSubmit: generateMutation.mutate sends POST /api/generate, which the
\* server receives as request r
OnSubmit(r) ==
  /\ ~IsGenerating
  /\ TrimLeft(TrimRight(ui.form)) # <<>>
  /\ WordCount(ui.form) <= 60
  /\ ParseRequest(StringBody(ui.form)).ok
  /\ PostGenerate(r, StringBody(ui.form))

\* generateMutation.onSuccess for the response of request r: lines 48-74
OnSuccess(r) ==
  /\ pc[r] = "responded"
  /\ r \notin ui.settled
  /\ resp[r][1].status = 200
  /\ resp[r][1].success
  /\ ui' = [ui EXCEPT
              !.currentImage = resp[r][1].image,
              !.showSaveSuccess = TRUE,
              !.showImageResult = TRUE,
              !.timers = @ \o <<[gen |-> r, delay |-> 3000],
                                [gen |-> r, delay |-> 5000]>>,
              !.stale = TRUE,
              !.toast = "Image Generated Successfully",
              !.settled = @ \cup {r}]
  /\ DownloadImageToComputer(r)
  /\ UNCHANGED <<now, pc, body, calls, output, fetches, content, toRead,
                 filename, fnTime, stream, disk, images, nextUuid, resp,
                 recent, stub, served>>

\* generateMutation.onError for the response of request r: lines 75-82
OnError(r) ==
  /\ pc[r] = "responded"
  /\ r \notin ui.settled
  /\ resp[r][1].status # 200
  /\ ui' = [ui EXCEPT !.toast = "Generation Failed",
                      !.settled = @ \cup {r}]
  /\ UNCHANGED <<now, pc, body, calls, output, fetches, content, toRead,
                 filename, fnTime, stream, disk, images, nextUuid, resp,
                 recent, stub, served, link>>

RemoveAt(s, i) == SubSeq(s, 1, i - 1) \o SubSeq(s, i + 1, Len(s))

\* a timer may run when no timer set before it has a delay as short as
\* its own: timers run in the order of their deadlines
MayRun(i) ==
  /\ i \in 1..Len(ui.timers)
  /\ \A j \in 1..(i - 1) : ui.timers[j].delay > ui.timers[i].delay

\* the callback of the 5 second timer without setCurrentImage(null) and
\* form.reset()
TimerFireHideOnly(i) ==
  /\ MayRun(i)
  /\ ui' = IF ui.timers[i].delay = 3000
             THEN [ui EXCEPT !.showSaveSuccess = FALSE,
                             !.timers = RemoveAt(@, i)]
             ELSE [ui EXCEPT !.showImageResult = FALSE,
                             !.timers = RemoveAt(@, i)]
  /\ UNCHANGED <<now, pc, body, calls, output, fetches, content, toRead,
                 filename, fnTime, stream, disk, images, nextUuid, resp,
                 recent, stub, served, link>>

\* a setTimeout callback of onSuccess runs: line 52 after 3 seconds,
\* lines 56-60 after 5 seconds.  No timer is ever cleared
TimerFire(i) ==
  /\ MayRun(i)
  /\ ui' = IF ui.timers[i].delay = 3000
             THEN [ui EXCEPT !.showSaveSuccess = FALSE,
                             !.timers = RemoveAt(@, i)]
             ELSE [ui EXCEPT !.showImageResult = FALSE,
                             !.currentImage = <<>>,
                             !.form = <<>>,
                             !.timers = RemoveAt(@, i)]
  /\ UNCHANGED <<now, pc, body, calls, output, fetches, content, toRead,
                 filename, fnTime, stream, disk, images, nextUuid, resp,
                 recent, stub, served, link>>

-----------------------------------------------------------------------------

\* the path parameters the GET routes are asked for: the names
\* generateFilename can give, the id of a record, a name that leaves the
\* images directory and a name of no file
MissingName == <<"x", ".", "p", "n", "g">>

GeneratedNames ==
  {GenerateFilename(t, p) : t \in 0..MaxClock,
                            p \in {PromptACat, PromptPunct}}

Identifiers ==
  GeneratedNames \cup {IdText(1), ParentSegment \o PackageJson, MissingName}

DownloadQueries == {NoQuery, Query(TrueText), Query(<<"1">>)}

\* the steps that carry a received request on, and the clock
Steps ==
  \/ Tick
  \/ \E r \in Requests, out \in Env(stub).outputs : UpstreamReturn(r, out)
  \/ \E r \in Requests, res \in Env(stub).fetches : FetchReturn(r, res)
  \/ \E r \in Requests, ok \in Env(stub).reads : ReadReturn(r, ok)
  \/ \E r \in Requests : StreamOpen(r)
  \/ \E r \in Requests : StreamFlush(r)
  \/ \E r \in Requests : StatReturn(r)

Next ==
  \/ \E r \in Requests, b \in Env(stub).bodies : PostGenerate(r, b)
  \/ Steps
  \/ \E r \in Requests, fault \in Env(stub).faults : StreamError(r, fault)

Spec == Init /\ [][Next]_vars

\* the metadata repository on its own, behind its save and list operations
InitStorage == Init /\ stub = "bodies"

NextStorage ==
  \/ Tick
  \/ \E ins \in InsertImages : SaveGeneratedImage(ins)
  \/ \E q \in Queries : GetRecent(q)

SpecStorage == InitStorage /\ [][NextStorage]_vars

\* the server with clients that fetch and download the stored files and
\* ask for the image count
InitServe == Init /\ stub = "serve"

NextServe ==
  \/ \E r \in Requests, b \in Env(stub).bodies : PostGenerate(r, b)
  \/ Steps
  \/ \E ident \in Identifiers, q \in DownloadQueries : GetImage(ident, q)
  \/ \E ident \in Identifiers : GetDownload(ident)
  \/ GetCount

SpecServe == InitServe /\ [][NextServe]_vars

\* the kiosk page in front of the server: every request is one the page
\* sent, so the next one is sent after the callbacks of the last one ran
InitClient == Init /\ stub = "shapes"

NextClient ==
  \/ \E p \in TypedPrompts : TypePrompt(p)
  \/ \E r \in Requests : OnSubmit(r)
  \/ Steps
  \/ \E r \in Requests : OnSuccess(r)
  \/ \E r \in Requests : OnError(r)
  \/ \E i \in 1..Len(ui.timers) : TimerFire(i)

SpecClient == InitClient /\ [][NextClient]_vars

\* a timer that was set runs once its delay has passed
FairSpecClient ==
  SpecClient /\ WF_vars(\E i \in 1..Len(ui.timers) : TimerFire(i))

-----------------------------------------------------------------------------
(* Properties *)

Received(r) == pc[r] # "idle"
Responded(r) == pc[r] = "responded"
Succeeded(r) == Responded(r) /\ resp[r][1].success
HasFilename(r) == filename[r] # <<>>

ZodIssues ==
  {"Required", "Expected string, received number", "Prompt is required",
   "Prompt too long"}

\* the response is the one the handler sends for a ZodError
ValidationFailed(r) ==
  /\ Responded(r)
  /\ resp[r][1].status = 500
  /\ ~resp[r][1].success
  /\ \E text \in ZodIssues : resp[r][1].message = ZodMessage(text)

\* the parts of a stored filename: {timestamp}_{segment}.png
TimestampLen == Len(ToISOString(0))
TimestampOf(fn) == SubSeq(fn, 1, TimestampLen)
SegmentOf(fn) == SubSeq(fn, TimestampLen + 2, Len(fn) - Len(PngSuffix))

\* C1: when the upstream returned a non-empty array and the request
\* succeeded, its record names a file that exists and its fileSize is the
\* byte length of the downloaded content
C1_FileSizeIsContentLength ==
  \A r \in Requests :
    (Succeeded(r) /\ output[r].kind = "array" /\ output[r].items # <<>>) =>
      /\ resp[r][1].image[1].localPath \in DOMAIN disk
      /\ resp[r][1].image[1].fileSize = Sum(content[r])

\* C2: a prompt of length 0 fails with the validation error and the
\* upstream is never called for that request
C2_EmptyPromptRejected ==
  \A r \in Requests :
    (Received(r) /\ body[r].type = "string" /\ Len(body[r].val) = 0) =>
      /\ ValidationFailed(r)
      /\ resp[r][1].message = ZodMessage("Prompt is required")
      /\ calls[r] = <<>>

C2_Witness ==
  \E r \in Requests : Responded(r) /\ body[r] = StringBody(PromptEmpty)

\* C3: a prompt longer than 500 characters fails with the validation error
\* and the upstream is never called for that request
C3_LongPromptRejected ==
  \A r \in Requests :
    (Received(r) /\ body[r].type = "string"
       /\ Len(body[r].val) > 500) =>
      /\ ValidationFailed(r)
      /\ resp[r][1].message = ZodMessage("Prompt too long")
      /\ calls[r] = <<>>

C3_Witness ==
  \E r \in Requests : Responded(r) /\ body[r] = StringBody(PromptTooLong)

\* C4: a body is accepted exactly when its prompt is a string of 1 to 500
\* characters; an accepted prompt reaches the upstream call and the record
\* as supplied, untrimmed; every other body is rejected before the call
C4_ValidatorAcceptsExactlyValid ==
  \A r \in Requests :
    Received(r) =>
      IF /\ body[r].type = "string"
         /\ Len(body[r].val) >= 1
         /\ Len(body[r].val) <= 500
        THEN /\ ~ValidationFailed(r)
             /\ Len(calls[r]) = 1
             /\ calls[r][1].prompt = PromptPrefix \o body[r].val \o PromptSuffix
             /\ Succeeded(r) => resp[r][1].image[1].prompt = body[r].val
        ELSE /\ ValidationFailed(r)
             /\ calls[r] = <<>>

C4_Witness ==
  \E r1, r2 \in Requests :
    /\ body[r1] = StringBody(PromptSpace) /\ Len(calls[r1]) = 1
    /\ body[r2] = StringBody(PromptMax) /\ Len(calls[r2]) = 1

\* an upstream output that is an empty array, or neither array nor string
UnusableOutput(out) ==
  \/ out.kind = "array" /\ out.items = <<>>
  \/ out.kind \in {"object", "null"}

\* C5: when the upstream returns an empty array or a value that is neither a
\* non-empty array nor a string, the request fails with the upstream
\* response error, nothing is downloaded and no record is persisted
C5_UnusableOutputFails ==
  /\ [](\A r \in Requests :
          UnusableOutput(output[r]) =>
            /\ Responded(r)
            /\ resp[r][1].status = 500
            /\ resp[r][1].message = <<"No valid image URL in API response">>
            /\ resp[r][1].image = <<>>
            /\ fetches[r] = <<>>
            /\ stream[r] = NoStream)
  /\ [][\A r \in Requests :
          (pc[r] = "upstream" /\ UnusableOutput(output'[r])) =>
            /\ images' = images
            /\ disk' = disk
            /\ GetImageCount(images') = GetImageCount(images)
            /\ \A k \in 0..DefaultLimit :
                 GetRecentImages(images', k) = GetRecentImages(images, k)]_vars

C5_Witness ==
  \E r1, r2 \in Requests :
    /\ Responded(r1) /\ output[r1] = ArrayOutput(<<>>)
    /\ Responded(r2) /\ output[r2] = ObjectOutput

\* C6: with the same prompt and the same downloaded content, a request whose
\* upstream returned the bare string u ends as one whose upstream returned
\* the array [u]: same URL downloaded, same outcome, records equal but for
\* id, generatedAt and the timestamp of the filename
C6_StringAsArray ==
  \A r1, r2 \in Requests :
    (/\ Responded(r1) /\ Responded(r2)
     /\ body[r1] = body[r2]
     /\ output[r1].kind = "string" /\ output[r2].kind = "array"
     /\ output[r2].items # <<>>
     /\ output[r1].items[1] = output[r2].items[1]
     /\ content[r1] = content[r2]) =>
      /\ fetches[r1] = fetches[r2]
      /\ Succeeded(r1) = Succeeded(r2)
      /\ (Succeeded(r1) /\ Succeeded(r2)) =>
           LET a == resp[r1][1].image[1]
               b == resp[r2][1].image[1] IN
             /\ a.prompt = b.prompt
             /\ a.fileSize = b.fileSize
             /\ a.resolution = b.resolution
             /\ a.modelUsed = b.modelUsed
             /\ a.imageUrl.base = b.imageUrl.base
             /\ a.imageUrl.route = b.imageUrl.route
             /\ SegmentOf(a.imageUrl.name) = SegmentOf(b.imageUrl.name)
             /\ a.localPath.dir = b.localPath.dir
             /\ SegmentOf(a.localPath.name) = SegmentOf(b.localPath.name)

\* filenames are a function of the clock value and the prompt
FilenameDeterministic ==
  \A r1, r2 \in Requests :
    (HasFilename(r1) /\ HasFilename(r2) /\ fnTime[r1] = fnTime[r2]
       /\ body[r1] = body[r2]) => filename[r1] = filename[r2]

\* C7 as stated: for a fixed timestamp and prompt the filename is
\* determined, and the segment for "A Cat!! @#%" is "a-cat"
C7_SegmentIsACat ==
  /\ FilenameDeterministic
  /\ \A r \in Requests :
       (HasFilename(r) /\ body[r] = StringBody(PromptACat)) =>
         SegmentOf(filename[r]) = <<"a", "-", "c", "a", "t">>

\* C7 as amended: for a fixed timestamp and prompt the filename is
\* determined, and the segment for "A Cat!! @#%" is "a-cat-": the space
\* before "@#%" survives the stripping and becomes a trailing hyphen
C7_SegmentIsACatHyphen ==
  /\ FilenameDeterministic
  /\ \A r \in Requests :
       (HasFilename(r) /\ body[r] = StringBody(PromptACat)) =>
         SegmentOf(filename[r]) = <<"a", "-", "c", "a", "t", "-">>

C7_Witness ==
  \E r1, r2 \in Requests :
    /\ r1 # r2
    /\ HasFilename(r1) /\ HasFilename(r2)
    /\ body[r1] = StringBody(PromptACat) /\ body[r2] = body[r1]
    /\ fnTime[r1] = fnTime[r2]

\* C8: the prompt segment has at most 50 characters, all of them in a-z,
\* 0-9 and '-', no two hyphens in a row, its letters and digits those of
\* the lower-cased prompt in order; the filename is {timestamp}_{segment}.png
\* and the timestamp has no ':' and no '.'
C8_FilenameShape ==
  \A r \in Requests :
    HasFilename(r) =>
      LET fn == filename[r]
          ts == TimestampOf(fn)
          seg == SegmentOf(fn) IN
        /\ Len(fn) >= TimestampLen + 1 + Len(PngSuffix)
        /\ MatchesTimestamp(ts)
        /\ \A i \in 1..Len(ts) : ts[i] \notin {":", "."}
        /\ fn[TimestampLen + 1] = "_"
        /\ SubSeq(fn, Len(fn) - Len(PngSuffix) + 1, Len(fn)) = PngSuffix
        /\ Len(seg) <= 50
        /\ \A i \in 1..Len(seg) : seg[i] \in AlphaNum \cup {"-"}
        /\ \A i \in 1..(Len(seg) - 1) : ~(seg[i] = "-" /\ seg[i + 1] = "-")
        /\ IsPrefix(SelectSeq(seg, LAMBDA c : c # "-"),
                    SelectSeq(ToLowerCase(body[r].val),
                              LAMBDA c : c \in AlphaNum))

C8_Witness ==
  \E r \in Requests :
    /\ HasFilename(r)
    /\ body[r] = StringBody(PromptMax)
    /\ Len(SegmentOf(filename[r])) = 50

\* C9 as stated: two requests have the same filename only if they were
\* handled in the same millisecond with the same prompt
C9_SameNameOnlySamePrompt ==
  \A r1, r2 \in Requests :
    (r1 # r2 /\ HasFilename(r1) /\ HasFilename(r2)
       /\ filename[r1] = filename[r2]) =>
      /\ fnTime[r1] = fnTime[r2]
      /\ body[r1].val = body[r2].val

\* C9 as amended: two requests have the same filename exactly when they
\* were handled in the same millisecond and their prompts have the same
\* sanitized segment; prompts that differ may share it
C9_SameNameIffSameSegment ==
  \A r1, r2 \in Requests :
    (r1 # r2 /\ HasFilename(r1) /\ HasFilename(r2)) =>
      ((filename[r1] = filename[r2]) <=>
         /\ fnTime[r1] = fnTime[r2]
         /\ SegmentOf(filename[r1]) = SegmentOf(filename[r2]))

C9_Witness ==
  \E r1, r2 \in Requests :
    /\ HasFilename(r1) /\ HasFilename(r2)
    /\ body[r1].val # body[r2].val
    /\ filename[r1] = filename[r2]

\* C10: listRecent(k) with k at most the number of records returns the k
\* records created last, the last created first
C10_RecentIsLastCreatedFirst ==
  (recent.asked /\ recent.limit >= 0 /\ recent.limit <= recent.size) =>
    recent.items = [i \in 1..recent.limit |-> images[recent.size - i + 1]]

Failed(r) == Responded(r) /\ ~resp[r][1].success

\* C11: the count is the number of saves that completed, which is the
\* number of requests answered with success, and a step in which a request
\* fails leaves the count as it was
C11_CountIsSuccessfulSaves ==
  /\ [](GetImageCount(images) = Cardinality({r \in Requests : Succeeded(r)}))
  /\ [][\A r \in Requests :
          (~Responded(r) /\ pc'[r] = "responded" /\ ~resp'[r][1].success) =>
            GetImageCount(images') = GetImageCount(images)]_vars

C11_Witness ==
  \E r1, r2 \in Requests :
    /\ Succeeded(r1)
    /\ Failed(r2)
    /\ GetImageCount(images) = 1

\* C12: no two records share an id; the record a successful request got
\* from save is what getById returns for its id ever after; every step
\* keeps every stored record retrievable and equal field by field; and a
\* save adds a record under an id that was not in the store
C12_RecordsImmutable ==
  /\ [](/\ \A i, j \in 1..Len(images) :
             images[i].id = images[j].id => i = j
        /\ \A r \in Requests :
             Succeeded(r) =>
               GetImageById(images, resp[r][1].image[1].id)
                 = resp[r][1].image)
  /\ [][/\ \A i \in 1..Len(images) :
             GetImageById(images', images[i].id) = <<images[i]>>
        /\ images' # images =>
             /\ Len(images') = Len(images) + 1
             /\ GetImageById(images, images'[Len(images')].id) = <<>>]_vars

C12_Witness ==
  \E r1, r2 \in Requests :
    /\ r1 # r2
    /\ Succeeded(r1)
    /\ Succeeded(r2)
    /\ resp[r1][1].image[1].id # resp[r2][1].image[1].id
    /\ Len(images) = 2

C14_ValidationIs4xxVerbatim ==
  \A r \in Requests :
    (Responded(r) /\ body[r].type = "string"
       /\ Len(body[r].val) \notin 1..500) =>
      /\ resp[r][1].status \in 400..499
      /\ resp[r][1].message =
           IF Len(body[r].val) = 0 THEN <<"Prompt is required">>
           ELSE <<"Prompt too long">>

\* the identifier is the name of a file in the images directory or the id
\* of a record
MatchesStoredImage(ident) ==
  \/ FilePath(ident) \in DOMAIN disk
  \/ \E i \in 1..Len(images) : IdText(images[i].id) = ident

\* C15: GET /api/images/:id for an identifier that matches no stored
\* image is answered with 404
C15_UnknownImageIs404 ==
  (served.route = "images" /\ ~MatchesStoredImage(served.ident)) =>
    served.status = 404

\* C16: GET recent with limit=N for a non-negative integer N returns at
\* most N records, and at most 12 when the limit is absent or not a
\* number; the records come newest first
C16_AtMostLimitNewestFirst ==
  recent.asked =>
    LET n == ParseInt(recent.query) IN
      /\ (~n.nan /\ n.val >= 0) => Len(recent.items) <= n.val
      /\ n.nan => Len(recent.items) <= 12
      /\ \A i \in 1..(Len(recent.items) - 1) :
           recent.items[i].generatedAt >= recent.items[i + 1].generatedAt

\* C17: GET /api/images/:identifier answers 200 with image/png and the
\* public long-lived cache header for an existing image when download is
\* not requested, 200 as an attachment with no-cache exactly when the
\* query has download=true, and 404 when the identifier names no image of
\* the images directory
C17_ServeImage ==
  [][(served' # served /\ served'.route = "images") =>
       LET ans == served'
           download == ans.query.present /\ ans.query.text = TrueText IN
         IF FilePath(ans.ident) \in DOMAIN disk
           THEN /\ ans.status = 200
                /\ (ans.disposition = "attachment") <=> download
                /\ download => ans.cacheControl = "no-cache"
                /\ ~download =>
                     /\ ans.contentType = "image/png"
                     /\ ans.cacheControl = "public, max-age=31536000"
           ELSE ans.status = 404]_vars

\* the stored filename has the shape {timestamp}_{segment}.png
GeneratedName(fn) ==
  /\ Len(fn) >= TimestampLen + 1 + Len(PngSuffix)
  /\ MatchesTimestamp(TimestampOf(fn))
  /\ fn[TimestampLen + 1] = "_"
  /\ SubSeq(fn, Len(fn) - Len(PngSuffix) + 1, Len(fn)) = PngSuffix

\* C18 as stated: for a filename the generator made, GET
\* /api/download/:filename answers 404 when the file is missing and
\* otherwise forces a download named "MM29-" + segment + ".png"
C18_DownloadNameIsSegment ==
  [][(served' # served /\ served'.route = "download"
        /\ GeneratedName(served'.ident)) =>
       IF FilePath(served'.ident) \in DOMAIN disk
         THEN /\ served'.status = 200
              /\ served'.disposition = "attachment"
              /\ served'.attachment =
                   MM29Prefix \o SegmentOf(served'.ident) \o PngSuffix
         ELSE served'.status = 404]_vars

\* C18 as amended: the download is named "MM29-" + segment + ".png" when
\* the segment has at least one character and "MM29-generated-image.png"
\* when the segment is empty; 404 when the file is missing
C18_DownloadNameOrFallback ==
  [][(served' # served /\ served'.route = "download"
        /\ GeneratedName(served'.ident)) =>
       IF FilePath(served'.ident) \in DOMAIN disk
         THEN /\ served'.status = 200
              /\ served'.disposition = "attachment"
              /\ served'.attachment =
                   IF SegmentOf(served'.ident) = <<>>
                     THEN MM29Prefix \o GeneratedImage \o PngSuffix
                     ELSE MM29Prefix \o SegmentOf(served'.ident)
                            \o PngSuffix
         ELSE served'.status = 404]_vars

C18_Witness ==
  /\ served.route = "download"
  /\ served.status = 200
  /\ \E r \in Requests : Succeeded(r) /\ filename[r] = served.ident
  /\ served.attachment =
       <<"M", "M", "2", "9", "-", "a", "-", "c", "a", "t", "-", ".", "p",
         "n", "g">>

\* C19: the download the client starts for a successfully generated image
\* has a filename that begins with MM29-
C19_ClientDownloadHasPrefix ==
  \A r \in Requests :
    (Succeeded(r) /\ link[r] # <<>>) =>
      IsPrefix(MM29Prefix, link[r][1].download)

\* every byte of the response body has been read and is in the file
DownloadFinished(r) ==
  /\ toRead[r] = <<>>
  /\ stream[r].queue = <<>>
  /\ FilePath(filename[r]) \in DOMAIN disk
  /\ disk[FilePath(filename[r])] >= Sum(content[r])

\* C20: the upstream is called only in the step that validated the body;
\* the download starts only in the step in which the upstream returned a
\* URL; the record is saved only after the download finished and with the
\* size read from the file; the success response is sent in the step of
\* the save; and a request that has responded executes no stage any more
C20_StagesInOrder ==
  [][\A r \in Requests :
       /\ calls'[r] # calls[r] =>
            /\ pc[r] = "idle"
            /\ body'[r].type = "string" /\ Len(body'[r].val) \in 1..500
       /\ fetches'[r] # fetches[r] =>
            /\ pc[r] = "upstream"
            /\ calls[r] # <<>>
            /\ output'[r].kind \in {"array", "string"}
       /\ (pc[r] = "stat" /\ pc'[r] = "responded" /\ images' # images) =>
            /\ fetches[r] # <<>>
            /\ DownloadFinished(r)
            /\ images'[Len(images')].fileSize
                 = disk[FilePath(filename[r])]
       /\ (~Responded(r) /\ pc'[r] = "responded" /\ resp'[r][1].success) =>
            /\ pc[r] = "stat"
            /\ images' # images
            /\ resp'[r][1].image = <<images'[Len(images')]>>
       /\ (~Responded(r) /\ pc'[r] = "responded"
             /\ ~resp'[r][1].success) =>
            /\ calls'[r] = calls[r]
            /\ fetches'[r] = fetches[r]
            /\ images' = images
       /\ Responded(r) =>
            /\ pc'[r] = "responded"
            /\ resp'[r] = resp[r]
            /\ calls'[r] = calls[r]
            /\ fetches'[r] = fetches[r]]_vars

\* the record of request r is in the store
HasRecord(r) ==
  \E i \in 1..Len(images) :
    /\ images[i].localPath = FilePath(filename[r])
    /\ images[i].prompt = body[r].val
    /\ images[i].generatedAt >= fnTime[r]

\* C21: when the write of the downloaded image fails, the request is not
\* answered with success, no record of it is persisted, and the process
\* stays alive: no request is left without an answer
C21_WriteFailureIsReported ==
  \A r \in Requests :
    stream[r].st = "error" =>
      /\ ~Succeeded(r)
      /\ ~HasRecord(r)
      /\ \A q \in Requests : pc[q] # "crashed"

\* C22: a request calls the upstream at most once, fetches at most once
\* and gets at most one response, and a request that was received and is
\* not answered yet is one whose handler still runs, so that it responds
\* once its upstream call and download have completed or failed
C22_OneResponseNoRetry ==
  \A r \in Requests :
    /\ Len(calls[r]) <= 1
    /\ Len(fetches[r]) <= 1
    /\ Len(resp[r]) <= 1
    /\ (Received(r) /\ ~Responded(r)) =>
         pc[r] \in {"upstream", "fetch", "read", "stat"}

\* C23: whatever the interleaving of the requests, every request answered
\* with success finds under the id it was given a record with the prompt,
\* the path, the URL and the size that request saved; no two requests
\* were given the same id; and the count is the number of those requests
C23_ConcurrentSavesKept ==
  /\ \A r \in Requests :
       Succeeded(r) =>
         LET saved == resp[r][1].image[1]
             found == GetImageById(images, saved.id) IN
           /\ found = <<saved>>
           /\ saved.prompt = body[r].val
           /\ saved.localPath = FilePath(filename[r])
           /\ saved.imageUrl = LocalUrl(filename[r])
           /\ saved.generatedAt >= fnTime[r]
  /\ \A r1, r2 \in Requests :
       (Succeeded(r1) /\ Succeeded(r2) /\ r1 # r2) =>
         resp[r1][1].image[1].id # resp[r2][1].image[1].id
  /\ GetImageCount(images) = Cardinality({r \in Requests : Succeeded(r)})

\* the request received second saved first, and both records are there
C23_Witness ==
  \E r1, r2 \in Requests :
    /\ r1 < r2
    /\ Succeeded(r1) /\ Succeeded(r2)
    /\ resp[r2][1].image[1].id < resp[r1][1].image[1].id
    /\ filename[r1] = filename[r2]

\* the request was answered with the error downloadImage throws for a
\* response that is not ok
DownloadRefused(r) ==
  /\ Responded(r)
  /\ resp[r][1].message = <<"Failed to download image: ", "Not Found">>

\* C24: a request whose download got an unsuccessful HTTP response is
\* answered with an error, has never created a write stream, and the step
\* that answers it leaves the files and the records as they were
C24_RefusedDownloadWritesNothing ==
  /\ [](\A r \in Requests :
          DownloadRefused(r) =>
            /\ resp[r][1].status = 500
            /\ ~resp[r][1].success
            /\ resp[r][1].image = <<>>
            /\ stream[r] = NoStream
            /\ content[r] = <<>>)
  /\ [][\A r \in Requests :
          (~Responded(r) /\ DownloadRefused(r)') =>
            /\ pc[r] = "fetch"
            /\ disk' = disk
            /\ images' = images]_vars

C24_Witness ==
  \E r \in Requests :
    /\ DownloadRefused(r)
    /\ fetches[r] = <<UrlA>>
    /\ FilePath(filename[r]) \notin DOMAIN disk

\* the timer that ran in this step, in a one-element sequence
FiredTimer ==
  IF Len(ui'.timers) + 1 = Len(ui.timers)
    THEN LET i == CHOOSE i \in 1..Len(ui.timers) :
                    ui'.timers = RemoveAt(ui.timers, i) IN
           <<ui.timers[i]>>
    ELSE <<>>

\* C25: the image of a newer generation is not hidden, and the form not
\* cleared, by the timer an earlier generation started: when the 5 second
\* timer of a generation runs, the image on display is that generation's
C25_OldTimerCancelled ==
  [][(FiredTimer # <<>> /\ FiredTimer[1].delay = 5000
        /\ ui.showImageResult /\ ui.currentImage # <<>>) =>
       ui.currentImage = resp[FiredTimer[1].gen][1].image]_vars

\* the page is idle: no image shown, none selected, the form reset
UiIdle ==
  /\ ~ui.showImageResult
  /\ ui.currentImage = <<>>
  /\ ui.form = <<>>

\* C26: after a successful generation the image is shown, and from every
\* state in which it is shown the page comes back, through its timers
\* alone, to the idle state
C26_ShownThenIdle ==
  /\ [][\A r \in Requests :
          (r \notin ui.settled /\ r \in ui'.settled /\ resp[r][1].success) =>
            /\ ui'.showImageResult
            /\ ui'.currentImage = resp[r][1].image]_vars
  /\ ui.showImageResult ~> UiIdle

C26_Witness ==
  /\ UiIdle
  /\ ui.timers = <<>>
  /\ \E r \in ui.settled : resp[r][1].success

\* C27: two requests with the same prompt make the same upstream call,
\* whatever else their bodies hold: the model, the aspect ratio, the
\* output format, the quality and the decorated prompt are those of the
\* code; and their records have the same resolution and modelUsed
C27_ConfigurationFixed ==
  /\ \A r \in Requests :
       calls[r] # <<>> =>
         /\ calls[r][1].model = "black-forest-labs/flux-schnell"
         /\ calls[r][1].aspect_ratio = "3:4"
         /\ calls[r][1].num_outputs = 1
         /\ calls[r][1].output_format = "png"
         /\ calls[r][1].output_quality = 90
         /\ calls[r][1].prompt
              = <<"M", "M", "2", "9", " ">> \o body[r].val \o
                <<", Maya style, futuristic streetwear, high tech fashion, ",
                  "minimalist design, professional photography">>
  /\ \A r1, r2 \in Requests :
       (calls[r1] # <<>> /\ calls[r2] # <<>>
          /\ body[r1].val = body[r2].val) =>
         /\ calls[r1] = calls[r2]
         /\ (Succeeded(r1) /\ Succeeded(r2)) =>
              /\ resp[r1][1].image[1].resolution
                   = resp[r2][1].image[1].resolution
              /\ resp[r1][1].image[1].modelUsed
                   = resp[r2][1].image[1].modelUsed

C27_Witness ==
  \E r1, r2 \in Requests :
    /\ body[r1] = StringBody(PromptACat)
    /\ body[r2] = ExtraBody(PromptACat, ExtraFields)
    /\ Succeeded(r1) /\ Succeeded(r2)
    /\ calls[r1] = calls[r2]

\* C28: the imageUrl of every record is the base path, /api/images/ and
\* the generated filename of the file at its localPath, never the URL of
\* the provider; and a GET on the imageUrl of a stored record answers 200
\* with the file at localPath, holding the bytes that were downloaded
C28_ImageUrlServesImage ==
  /\ [](\A i \in 1..Len(images) :
          LET rec == images[i] IN
            /\ rec.localPath.dir = ImagesDir
            /\ GeneratedName(rec.localPath.name)
            /\ rec.imageUrl = [base |-> "", route |-> "/api/images/",
                              name |-> rec.localPath.name]
            /\ rec.localPath \in DOMAIN disk)
  /\ [][\A r \in Requests :
          (served' # served /\ served'.route = "images" /\ Succeeded(r)
             /\ served'.ident = resp[r][1].image[1].imageUrl.name) =>
            /\ served'.status = 200
            /\ served'.file = <<resp[r][1].image[1].localPath>>
            /\ served'.bytes = Sum(content[r])]_vars

\* C29: the address the page uses for a generated image, /api/images/
\* followed by the id of the record, is answered with status 200 and the
\* file of that record, not with 404
C29_IdAddressServesImage ==
  [][\A i \in 1..Len(images) :
       (served' # served /\ served'.route = "images"
          /\ served'.ident = IdText(images[i].id)) =>
         /\ served'.status = 200
         /\ served'.file = <<images[i].localPath>>]_vars

\* C30: the two file routes only send files of the generated-images
\* directory, whatever identifier the request names
C30_ServedFilesInsideImagesDir ==
  served.file # <<>> => served.file[1].dir = ImagesDir

====
